---- MODULE Spec2Model ----
(***************************************************************************)
(* A model of CGAL's Approx_offset_base_2 (Minkowski_sum_2): the           *)
(* constructor and the traversal _offset_polygon, which emits the labeled  *)
(* curves of one convolution cycle of the approximated offset of a         *)
(* polygon.                                                                *)
(*                                                                         *)
(* The exact number type NT is modelled by normalised fractions <<n, d>>   *)
(* (d > 0, gcd(|n|, d) = 1), so that equality of the tuples is equality    *)
(* of the numbers.  A point is a pair <<x, y>> of such fractions.          *)
(* A double is modelled by its sign, its 53-bit significand and its        *)
(* exponent, and its arithmetic rounds to the nearest double.  The error   *)
(* bound err_bound = NT (derr_bound) is kept as that double, which is the  *)
(* number exactly.                                                         *)
(***************************************************************************)
EXTENDS Integers, Sequences, FiniteSets, TLC

\* ------------------------------------------------------------------------
\* The exact number type NT (Kernel::FT)
\* ------------------------------------------------------------------------

\* The operators on numbers take their arguments through a function, so
\* that an argument is evaluated once, where the operator is applied.

IAbs(n) == [k \in Int |-> IF k < 0 THEN -k ELSE k][n]

\* The greatest common divisor of a >= 0 and b >= 0.
GCD(a, b) ==
  LET gcd[x \in Nat, y \in Nat] == IF y = 0 THEN x ELSE gcd[y, x % y]
  IN  gcd[a, b]

\* The fraction n/d (d # 0) in normal form.
Rat(n, d) ==
  LET rat[k \in Int, m \in Int] ==
        LET g == GCD(IAbs(k), IAbs(m))
            s == IF m < 0 THEN -1 ELSE 1
        IN  <<s * (k \div g), s * (m \div g)>>
  IN  rat[n, d]

\* The fractions.
FT == Int \X Int

NT(n) == <<n, 1>>

Zero == NT(0)
One  == NT(1)
Two  == NT(2)
OneHalf == Rat(1, 2)

Neg(a) == [x \in FT |-> <<-x[1], x[2]>>][a]

Add(a, b) ==
  LET add[x \in FT, y \in FT] ==
        LET g == GCD(x[2], y[2])
        IN  Rat(x[1] * (y[2] \div g) + y[1] * (x[2] \div g),
                (x[2] \div g) * y[2])
  IN  add[a, b]

Sub(a, b) == Add(a, Neg(b))

\* The product, cancelling across before multiplying.
Mul(a, b) ==
  LET mul[x \in FT, y \in FT] ==
        LET g1 == GCD(IAbs(x[1]), y[2])
            g2 == GCD(IAbs(y[1]), x[2])
        IN  <<(x[1] \div g1) * (y[1] \div g2),
              (x[2] \div g2) * (y[2] \div g1)>>
  IN  mul[a, b]

\* 1/a, for a # 0.
Inv(a) ==
  [x \in FT |-> IF x[1] < 0 THEN <<-x[2], -x[1]>> ELSE <<x[2], x[1]>>][a]

\* a/b, for b # 0.
Div(a, b) == Mul(a, Inv(b))

square(a) == [x \in FT |-> Mul(x, x)][a]

\* CGAL::sign: NEGATIVE = -1, ZERO = 0, POSITIVE = 1.
sign(a) == [x \in FT |-> IF x[1] < 0 THEN -1 ELSE IF x[1] = 0 THEN 0 ELSE 1][a]

abs(a) == [x \in FT |-> <<IAbs(x[1]), x[2]>>][a]

\* a/b against c/d for a, c >= 0 and b, d > 0, by the integer parts and
\* then the remainders (no product is formed).
CmpPos(a, b, c, d) ==
  LET cmp[x \in Nat, y \in Nat, z \in Nat, w \in Nat] ==
        LET qx == x \div y
            qz == z \div w
            rx == x % y
            rz == z % w
        IN  IF qx # qz THEN (IF qx < qz THEN -1 ELSE 1)
            ELSE IF rx = 0 /\ rz = 0 THEN 0
            ELSE IF rx = 0 THEN -1
            ELSE IF rz = 0 THEN 1
            ELSE 0 - cmp[y, rx, w, rz]
  IN  cmp[a, b, c, d]

\* CGAL::compare: SMALLER = -1, EQUAL = 0, LARGER = 1.
compare(a, b) ==
  LET cmp[x \in FT, y \in FT] ==
        IF x[1] < 0 /\ y[1] >= 0 THEN -1
        ELSE IF x[1] >= 0 /\ y[1] < 0 THEN 1
        ELSE IF x[1] >= 0 THEN CmpPos(x[1], x[2], y[1], y[2])
        ELSE CmpPos(-y[1], y[2], -x[1], x[2])
  IN  cmp[a, b]

Less(a, b) == compare(a, b) = -1
Leq(a, b)  == compare(a, b) # 1

\* ------------------------------------------------------------------------
\* Natural numbers of any size
\* ------------------------------------------------------------------------

\* The significand of a double has 53 bits, and a product of two has 106.
\* A natural number is kept as the sequence of its digits in base 2^15,
\* the least significant first and the last one not 0; 0 is <<>>.
\* The operations are functions, so that an argument is evaluated once.

Base == 2 ^ 15

Limbs == Seq(0..(Base - 1))

Pow2[k \in Nat] == IF k = 0 THEN 1 ELSE 2 * Pow2[k - 1]

BTrim[a \in Limbs] ==
  IF a = <<>> \/ a[Len(a)] # 0 THEN a ELSE BTrim[SubSeq(a, 1, Len(a) - 1)]

BFromInt[n \in Nat] ==
  IF n = 0 THEN <<>> ELSE <<n % Base>> \o BFromInt[n \div Base]

BToInt[a \in Limbs] == IF a = <<>> THEN 0 ELSE a[1] + Base * BToInt[Tail(a)]

BLimb[a \in Limbs, i \in Nat] == IF i <= Len(a) THEN a[i] ELSE 0

BCmpFrom[a \in Limbs, b \in Limbs, k \in Nat] ==
  IF k = 0 THEN 0
  ELSE IF a[k] # b[k] THEN (IF a[k] < b[k] THEN -1 ELSE 1)
  ELSE BCmpFrom[a, b, k - 1]

\* -1, 0 or 1 as a < b, a = b or a > b.
BCmp[a \in Limbs, b \in Limbs] ==
  IF Len(a) # Len(b) THEN (IF Len(a) < Len(b) THEN -1 ELSE 1)
  ELSE BCmpFrom[a, b, Len(a)]

BAddFrom[a \in Limbs, b \in Limbs, k \in Nat, carry \in Nat] ==
  IF k > Len(a) /\ k > Len(b)
  THEN (IF carry = 0 THEN <<>> ELSE <<carry>>)
  ELSE LET sum == BLimb[a, k] + BLimb[b, k] + carry
       IN  <<sum % Base>> \o BAddFrom[a, b, k + 1, sum \div Base]

BAdd[a \in Limbs, b \in Limbs] == BAddFrom[a, b, 1, 0]

BSubFrom[a \in Limbs, b \in Limbs, k \in Nat, borrow \in Nat] ==
  IF k > Len(a) THEN <<>>
  ELSE LET diff == a[k] - BLimb[b, k] - borrow
       IN  IF diff < 0 THEN <<diff + Base>> \o BSubFrom[a, b, k + 1, 1]
           ELSE <<diff>> \o BSubFrom[a, b, k + 1, 0]

\* a - b for a >= b.
BSub[a \in Limbs, b \in Limbs] == BTrim[BSubFrom[a, b, 1, 0]]

BMulSmallFrom[a \in Limbs, m \in Nat, k \in Nat, carry \in Nat] ==
  IF k > Len(a) THEN (IF carry = 0 THEN <<>> ELSE <<carry>>)
  ELSE LET prod == a[k] * m + carry
       IN  <<prod % Base>> \o BMulSmallFrom[a, m, k + 1, prod \div Base]

\* a * m for m < Base.
BMulSmall[a \in Limbs, m \in Nat] ==
  IF m = 0 THEN <<>> ELSE BMulSmallFrom[a, m, 1, 0]

BMul[a \in Limbs, b \in Limbs] ==
  IF a = <<>> \/ b = <<>> THEN <<>>
  ELSE BAdd[BMulSmall[a, b[1]], BTrim[<<0>> \o BMul[a, Tail(b)]]]

Zeros[q \in Nat] == [i \in 1..q |-> 0]

\* a * 2^k.
BShl[a \in Limbs, k \in Nat] ==
  IF a = <<>> THEN <<>>
  ELSE Zeros[k \div 15] \o BMulSmall[a, Pow2[k % 15]]

BShrBits[a \in Limbs, r \in Nat, k \in Nat] ==
  IF k > Len(a) THEN <<>>
  ELSE <<(a[k] \div Pow2[r]) + (BLimb[a, k + 1] % Pow2[r]) * Pow2[15 - r]>>
       \o BShrBits[a, r, k + 1]

\* The integer part of a / 2^k.
BShr[a \in Limbs, k \in Nat] ==
  IF k \div 15 >= Len(a) THEN <<>>
  ELSE BTrim[BShrBits[SubSeq(a, (k \div 15) + 1, Len(a)), k % 15, 1]]

IBitLen[n \in Nat] == IF n = 0 THEN 0 ELSE 1 + IBitLen[n \div 2]

\* The number of bits of a.
BBitLen[a \in Limbs] ==
  IF a = <<>> THEN 0 ELSE 15 * (Len(a) - 1) + IBitLen[a[Len(a)]]

\* Bit i of a, bit 0 the least significant.
BBit[a \in Limbs, i \in Nat] ==
  (BLimb[a, (i \div 15) + 1] \div Pow2[i % 15]) % 2

BOdd[a \in Limbs] == a # <<>> /\ a[1] % 2 = 1

\* 2 * r + bit.
BStep[r \in Limbs, bit \in {0, 1}] == BAddFrom[r, r, 1, bit]

\* A quotient with its remainder, a root with its remainder.
Pair == Limbs \X Limbs

\* The bits are taken eight at a time, to keep the recursion shallow.
Low[i \in Nat] == IF i > 8 THEN i - 8 ELSE 0

\* One bit of the quotient, for t = 2 * r + the next bit of the dividend.
BDivTry[b \in Limbs, q \in Limbs, t \in Limbs] ==
  IF BCmp[t, b] >= 0 THEN <<BStep[q, 1], BSub[t, b]>> ELSE <<BStep[q, 0], t>>

BDivBits[a \in Limbs, b \in Limbs, i \in Nat, lo \in Nat, qr \in Pair] ==
  IF i = lo THEN qr
  ELSE BDivBits[a, b, i - 1, lo,
                BDivTry[b, qr[1], BStep[qr[2], BBit[a, i - 1]]]]

BDivFrom[a \in Limbs, b \in Limbs, i \in Nat, qr \in Pair] ==
  IF i = 0 THEN qr
  ELSE BDivFrom[a, b, Low[i], BDivBits[a, b, i, Low[i], qr]]

\* The division bit by bit: the leading bits of a, one fewer than b has,
\* are below b, and the quotient starts after them.
BDivLong[a \in Limbs, b \in Limbs, la \in Nat, lb \in Nat] ==
  IF la < lb THEN <<<<>>, a>>
  ELSE BDivFrom[a, b, la - lb + 1, <<<<>>, BShr[a, la - lb + 1]>>]

\* The quotient and the remainder of a by d < Base, digit by digit.
BDivSmall[a \in Limbs, d \in Nat, k \in Nat, q \in Limbs, r \in Nat] ==
  IF k = 0 THEN <<BTrim[q], BFromInt[r]>>
  ELSE BDivSmall[a, d, k - 1, <<(r * Base + a[k]) \div d>> \o q,
                 (r * Base + a[k]) % d]

\* The quotient and the remainder of a by b # 0.
BDivMod[a \in Limbs, b \in Limbs] ==
  IF Len(b) = 1 THEN BDivSmall[a, b[1], Len(a), <<>>, 0]
  ELSE BDivLong[a, b, BBitLen[a], BBitLen[b]]

\* One bit of the root: for the root s so far and the remainder t so far,
\* followed by the next two bits of n, the bit is 1 if 4 * s + 1 <= t.
BSqrtTry[s \in Limbs, t \in Limbs, c \in Limbs] ==
  IF BCmp[c, t] <= 0 THEN <<BStep[s, 1], BSub[t, c]>> ELSE <<BStep[s, 0], t>>

BSqrtBits[n \in Limbs, i \in Nat, lo \in Nat, sr \in Pair] ==
  IF i = lo THEN sr
  ELSE BSqrtBits[n, i - 1, lo,
                 BSqrtTry[sr[1],
                          BStep[BStep[sr[2], BBit[n, 2 * i - 1]],
                                BBit[n, 2 * i - 2]],
                          BStep[BStep[sr[1], 0], 1]]]

BSqrtFrom[n \in Limbs, i \in Nat, sr \in Pair] ==
  IF i = 0 THEN sr
  ELSE BSqrtFrom[n, Low[i], BSqrtBits[n, i, Low[i], sr]]

\* The integer part s of the square root of n, and the remainder
\* n - s * s, two bits of n at a time.
BSqrtRem[n \in Limbs] ==
  BSqrtFrom[n, (BBitLen[n] + 1) \div 2, <<<<>>, <<>>>>]

\* ------------------------------------------------------------------------
\* Doubles
\* ------------------------------------------------------------------------

\* A double is <<s, m, e>>, the number s * m * 2^e with the sign s, the
\* significand m of exactly 53 bits and the exponent e; 0 is <<0, <<>>, 0>>.
\* Every operation on doubles gives the double nearest to the exact
\* result, a tie going to the even significand.  No double of the model is
\* subnormal, infinite or not a number.

Dbl == {-1, 0, 1} \X Limbs \X Int

DZero == <<0, <<>>, 0>>

ISign[n \in Int] == IF n < 0 THEN -1 ELSE IF n = 0 THEN 0 ELSE 1

\* q * 2^e rounded up by one unit of q, for a q of 53 bits.
RoundUp[q \in Limbs, e \in Int] ==
  IF BBitLen[BAdd[q, <<1>>]] = 54 THEN <<BShr[BAdd[q, <<1>>], 1], e + 1>>
  ELSE <<BAdd[q, <<1>>], e>>

\* m * 2^e for q the leading 53 bits of m, and k bits cut off.
RoundCut[m \in Limbs, e \in Int, k \in Nat, q \in Limbs] ==
  IF \/ BCmp[BSub[m, BShl[q, k]], BShl[<<1>>, k - 1]] = 1
     \/ BCmp[BSub[m, BShl[q, k]], BShl[<<1>>, k - 1]] = 0 /\ BOdd[q]
  THEN RoundUp[q, e + k]
  ELSE <<q, e + k>>

RoundLen[m \in Limbs, e \in Int, len \in Nat] ==
  IF len <= 53 THEN <<BShl[m, 53 - len], e - (53 - len)>>
  ELSE RoundCut[m, e, len - 53, BShr[m, len - 53]]

MkDbl[s \in {-1, 1}, p \in Limbs \X Int] == <<s, p[1], p[2]>>

\* The double nearest to s * m * 2^e.
Round[s \in {-1, 0, 1}, m \in Limbs, e \in Int] ==
  IF m = <<>> \/ s = 0 THEN DZero ELSE MkDbl[s, RoundLen[m, e, BBitLen[m]]]

\* 2 * q, plus 1 if the division or the root left a remainder: with two
\* bits or more beyond the 53, rounding this is rounding the exact value.
Sticky[qr \in Pair] ==
  BStep[qr[1], IF qr[2] = <<>> THEN 0 ELSE 1]

\* static_cast<double> of an int; |n| is taken as |n + 1| + 1 for n < 0,
\* as -INT_MIN is no int.
DFromInt[n \in Int] ==
  IF n < 0 THEN Round[-1, BAdd[BFromInt[0 - (n + 1)], <<1>>], 0]
  ELSE Round[ISign[n], BFromInt[n], 0]

\* 2^e.
DPow2[e \in Int] == <<1, BShl[<<1>>, 52], e - 52>>

RatShift[n \in Nat, d \in Nat] ==
  IF 56 + IBitLen[d] - IBitLen[n] > 0 THEN 56 + IBitLen[d] - IBitLen[n] ELSE 0

ChopLen[m \in Limbs, e \in Int, len \in Nat] ==
  IF len <= 53 THEN <<BShl[m, 53 - len], e - (53 - len)>>
  ELSE <<BShr[m, len - 53], e + (len - 53)>>

\* s * m * 2^e cut to a significand of 53 bits, towards zero.
Chop[s \in {-1, 0, 1}, m \in Limbs, e \in Int] ==
  IF m = <<>> \/ s = 0 THEN DZero ELSE MkDbl[s, ChopLen[m, e, BBitLen[m]]]

to_double_at[s \in {-1, 0, 1}, n \in Nat, d \in Nat, k \in Nat] ==
  Chop[s, BDivMod[BShl[BFromInt[n], k], BFromInt[d]][1], 0 - k]

\* CGAL::to_double of a fraction, as of an exact rational (mpq_get_d):
\* the fraction cut to 53 bits, towards zero.
to_double[q \in FT] ==
  to_double_at[ISign[q[1]], IAbs(q[1]), q[2], RatShift[IAbs(q[1]), q[2]]]

\* x * y.
DMul[x \in Dbl, y \in Dbl] ==
  Round[x[1] * y[1], BMul[x[2], y[2]], x[3] + y[3]]

\* x / y for y # 0.
DDiv[x \in Dbl, y \in Dbl] ==
  Round[x[1] * y[1], Sticky[BDivMod[BShl[x[2], 56], y[2]]], x[3] - y[3] - 57]

DNeg[x \in Dbl] == <<0 - x[1], x[2], x[3]>>

\* ::fabs.
fabs[x \in Dbl] == <<x[1] * x[1], x[2], x[3]>>

DAddAt[x \in Dbl, y \in Dbl, e \in Int, a \in Limbs, b \in Limbs] ==
  IF x[1] = y[1] THEN Round[x[1], BAdd[a, b], e]
  ELSE IF BCmp[a, b] >= 0 THEN Round[x[1], BSub[a, b], e]
  ELSE Round[y[1], BSub[b, a], e]

DAddMin[x \in Dbl, y \in Dbl, e \in Int] ==
  DAddAt[x, y, e, BShl[x[2], x[3] - e], BShl[y[2], y[3] - e]]

\* x + y.
DAdd[x \in Dbl, y \in Dbl] ==
  IF x[1] = 0 THEN y
  ELSE IF y[1] = 0 THEN x
  ELSE DAddMin[x, y, IF x[3] < y[3] THEN x[3] ELSE y[3]]

\* x - y.
DSub[x \in Dbl, y \in Dbl] == DAdd[x, DNeg[y]]

\* -1, 0 or 1 as x < y, x = y or x > y.
DCmp[x \in Dbl, y \in Dbl] == DSub[x, y][1]

sqrt_at[x \in Dbl, t \in Nat] ==
  Round[x[1], Sticky[BSqrtRem[BShl[x[2], t]]], ((x[3] - t) \div 2) - 1]

\* CGAL::sqrt of a double x >= 0.
sqrt[x \in Dbl] == sqrt_at[x, IF (x[3] - 57) % 2 = 0 THEN 57 ELSE 58]

INT_MAX == 2147483647

INT_MIN == (0 - INT_MAX) - 1

\* static_cast<int> of a double, as the set of its possible results: the
\* integer part of x if that is an int.  If it is not, the behaviour is
\* undefined: the conversion instruction of the x86 gives INT_MIN, and a
\* conversion that saturates, as the compiler's own of a constant, gives
\* INT_MAX for x > 0 and INT_MIN for x < 0.
static_cast_int[x \in Dbl] ==
  IF x[1] = 0 THEN {0}
  ELSE IF x[3] + 53 <= 31 THEN {x[1] * BToInt[BShr[x[2], 0 - x[3]]]}
  ELSE IF x[1] = -1 THEN {INT_MIN}
  ELSE {INT_MIN, INT_MAX}

\* CGAL::compare (a, NT (x)) for a fraction a and a double x: NT (x) is
\* the number x exactly.
CompareNT[a \in FT, x \in Dbl] ==
  IF ISign[a[1]] # x[1] THEN (IF ISign[a[1]] < x[1] THEN -1 ELSE 1)
  ELSE IF x[1] = 0 THEN 0
  ELSE IF x[3] < 0
       THEN x[1] * BCmp[BShl[BFromInt[IAbs(a[1])], 0 - x[3]],
                        BMul[BFromInt[a[2]], x[2]]]
       ELSE x[1] * BCmp[BFromInt[IAbs(a[1])],
                        BShl[BMul[BFromInt[a[2]], x[2]], x[3]]]

\* CGAL::sqrt (CGAL::to_double (a)) for a >= 0.
DSqrt(a) == sqrt[to_double[a]]

\* ------------------------------------------------------------------------
\* The constructor (lines 81-89)
\* ------------------------------------------------------------------------

\* The possible values of _inv_sqrt_eps for the double eps > 0:
\* static_cast<int> (1.0 / CGAL::sqrt (_eps)), and 1 if that is 0.
InvSqrtEps(eps) ==
  LET clamp[v \in Int] == IF v = 0 THEN 1 ELSE v
  IN  {clamp[v] : v \in static_cast_int[DDiv[DFromInt[1], sqrt[eps]]]}

\* ------------------------------------------------------------------------
\* The square-root seed of a general edge (lines 247-265)
\* ------------------------------------------------------------------------

max_int == 2 ^ 30

\* NT (2 * dd * _eps * ::fabs ((dd - to_double (delta_y)) /
\* to_double (delta_x))), every step in doubles.
ErrBound(dd, eps, delta_x, delta_y) ==
  DMul[DMul[DMul[DFromInt[2], dd], eps],
       fabs[DDiv[DSub[dd, to_double[delta_y]], to_double[delta_x]]]]

\* denom / 2 of two ints: the quotient is cut towards zero.
HalfOf[k \in Int] == IF k < 0 THEN (k + 1) \div 2 ELSE k \div 2

\* while (max_int / denom < dd) denom /= 2; the double quotient by 0 is
\* +infinity, which ends the loop with denom = 0.  A negative denom has a
\* negative quotient, and is halved down to 0.
Halve(denom, dd) ==
  LET halve[k \in Int, x \in Dbl] ==
        IF k # 0 /\ DCmp[DDiv[DFromInt[max_int], DFromInt[k]], x] = -1
        THEN halve[HalfOf[k], x]
        ELSE k
  IN  halve[denom, dd]

\* static_cast<int> (dd * denom + 0.5), the possible numerators of the
\* seed.
SeedNum(dd, denom) ==
  static_cast_int[DAdd[DMul[dd, DFromInt[denom]], to_double[OneHalf]]]

\* A variant of the condition below that leaves out the test against
\* abs_delta_y.
NewtonCondMut(app_d, app_err, err_bound, abs_delta_x, abs_delta_y) ==
  \/ CompareNT[abs(app_err), err_bound] = 1
  \/ compare(app_d, abs_delta_x) # 1

\* The condition of the refinement loop (lines 267-270).
NewtonCond(app_d, app_err, err_bound, abs_delta_x, abs_delta_y) ==
  \/ CompareNT[abs(app_err), err_bound] = 1
  \/ compare(app_d, abs_delta_x) # 1
  \/ compare(app_d, abs_delta_y) # 1

\* One refinement (line 272), for app_d # 0.
NewtonIter(app_d, sqr_d) == Div(Add(app_d, Div(sqr_d, app_d)), Two)

\* Line 278: whether the approximated length is the exact one.
IsExact(sign_app_err) == sign_app_err = 0

\* The bias of lines 297-308: whether app_d is replaced by sqr_d / app_d.
BiasSwap(sign_delta_x, sign_app_err) ==
  IF sign_delta_x = -1 THEN sign_app_err = -1 ELSE sign_app_err = 1

\* ------------------------------------------------------------------------
\* Points, lines and curves
\* ------------------------------------------------------------------------

Point_2(x, y) == <<x, y>>

\* The value of a point that was not assigned yet.
NoPoint == Point_2(Zero, Zero)

\* Compare_xy_2: the lexicographic order of two points.
f_comp_xy(p, q) ==
  IF compare(p[1], q[1]) # 0 THEN compare(p[1], q[1]) ELSE compare(p[2], q[2])

\* The offset point of (x, y) for the half-angle tangent t (lines 321-333):
\* (x + r*cos_phi, y + r*sin_phi) with sin_phi = 2t/(1+t^2) and
\* cos_phi = (1-t^2)/(1+t^2).
OffsetPoint(x, y, r, tan_half_phi) ==
  LET sqr_tan_half_phi == square(tan_half_phi)
      sin_phi == Div(Mul(Two, tan_half_phi), Add(One, sqr_tan_half_phi))
      cos_phi == Div(Sub(One, sqr_tan_half_phi), Add(One, sqr_tan_half_phi))
  IN  Point_2(Add(x, Mul(r, cos_phi)), Add(y, Mul(r, sin_phi)))

\* f_perp_line (f_line (c, op), op): the line through op whose normal is
\* op - c, as <<a, b, k>> for a*x + b*y = k.
TangentLine(c, op) ==
  LET a == Sub(op[1], c[1])
      b == Sub(op[2], c[2])
  IN  <<a, b, Add(Mul(a, op[1]), Mul(b, op[2]))>>

LineDet(l1, l2) == Sub(Mul(l1[1], l2[2]), Mul(l2[1], l1[2]))

\* f_intersect (l1, l2) for two lines that are not parallel.
Intersect(l1, l2) ==
  LET det == LineDet(l1, l2)
  IN  Point_2(Div(Sub(Mul(l1[3], l2[2]), Mul(l2[3], l1[2])), det),
              Div(Sub(Mul(l1[1], l2[3]), Mul(l2[1], l1[3])), det))

\* X_monotone_curve_2 (source, target): a segment.
Segment(p, q) == [kind |-> "seg", src |-> p, tgt |-> q, centre |-> NoPoint]

\* An x-monotone piece of a counterclockwise arc around c.
Arc(c, p, q) == [kind |-> "arc", src |-> p, tgt |-> q, centre |-> c]

\* Whether p, on a circle around c, has its angle in [0, pi).
UpperHalf(c, p) ==
  \/ Less(c[2], p[2])
  \/ p[2] = c[2] /\ Less(c[1], p[1])

\* For p and q in the same half: whether the angle of p is below that of q.
AngleBefore(c, p, q) ==
  IF UpperHalf(c, p) THEN Less(q[1], p[1]) ELSE Less(p[1], q[1])

\* Make_x_monotone_2 on Curve_2 (c, r, COUNTERCLOCKWISE, s, t): the arc is
\* cut at the points of vertical tangency that lie inside it.
MakeXMonotone(c, r, s, t) ==
  LET left  == Point_2(Sub(c[1], abs(r)), c[2])
      right == Point_2(Add(c[1], abs(r)), c[2])
      up    == UpperHalf(c, s)
      b1    == IF up THEN left ELSE right
      b2    == IF up THEN right ELSE left
  IN  IF UpperHalf(c, t) = up /\ AngleBefore(c, s, t) THEN <<Arc(c, s, t)>>
      ELSE IF t = b1 THEN <<Arc(c, s, b1)>>
      ELSE IF UpperHalf(c, t) # up THEN <<Arc(c, s, b1), Arc(c, b1, t)>>
      ELSE IF t = b2 THEN <<Arc(c, s, b1), Arc(c, b1, b2)>>
      ELSE <<Arc(c, s, b1), Arc(c, b1, b2), Arc(c, b2, t)>>

\* X_monotone_curve_2::is_directed_right for a piece of a counterclockwise
\* arc: the lower pieces run to the right.
is_directed_right(xarc) == ~UpperHalf(xarc.centre, xarc.src)

\* Labeled_curve_2 (curve, X_curve_label (right, cycle, index, is_last)).
Labeled_curve_2(cv, right, cycle, index, is_last) ==
  [curve |-> cv, right |-> right, cycle |-> cycle, index |-> index,
   last |-> is_last]

\* ------------------------------------------------------------------------
\* Polygons
\* ------------------------------------------------------------------------

\* Twice the signed area of the polygon, from vertex i on.
Area2From(pgn, i) ==
  LET area[k \in Nat] ==
        IF k > Len(pgn) THEN Zero
        ELSE LET p == pgn[k]
                 q == pgn[(k % Len(pgn)) + 1]
             IN  Add(Sub(Mul(p[1], q[2]), Mul(q[1], p[2])), area[k + 1])
  IN  area[i]

\* Polygon_2::orientation: COUNTERCLOCKWISE = 1, CLOCKWISE = -1.
orientation(pgn) == sign(Area2From(pgn, 1))

\* Vertex_circulator ++ and -- on the vertices 1..n.
CircNext(i, n) == (i % n) + 1
CircPrev(i, n) == ((i + n - 2) % n) + 1

\* A variant of the step below that assumes a counterclockwise polygon.
StepNextMut(forward, next, n) == CircNext(next, n)

\* Lines 170-173: the next vertex in counterclockwise order.
StepNext(forward, next, n) ==
  IF forward THEN CircNext(next, n) ELSE CircPrev(next, n)

Reverse(s) == [i \in 1..Len(s) |-> s[Len(s) + 1 - i]]

\* ------------------------------------------------------------------------
\* Inputs
\* ------------------------------------------------------------------------

\* The longest leg, in units of 1/d, of the edges whose length is
\* approximated.
MaxLeg == 5

\* The number of calls of _offset_polygon the caller makes on one object.
NumCalls == 2

\* The largest cycle id of the first call.
MaxCycleId == 1

P(x, y) == Point_2(NT(x), NT(y))

Q(x, y, d) == Point_2(Rat(x, d), Rat(y, d))

\* The counterclockwise right triangle whose first edge is (dx/d, dy/d).
RightTriangle(dx, dy, d) ==
  <<Q(0, 0, d), Q(dx, dy, d), IF dx * dy > 0 THEN Q(0, dy, d) ELSE Q(dx, 0, d)>>

Triangles ==
  {RightTriangle(dx, dy, 1) : dx \in {-2, -1, 1, 2}, dy \in {-2, -1, 1, 2}}

Square == <<P(0, 0), P(1, 0), P(1, 1), P(0, 1)>>

Rectangle == <<P(0, 0), P(0, 1), P(2, 1), P(2, 0)>>

Diamond == <<P(0, -1), P(1, 0), P(0, 1), P(-1, 0)>>

LShape == <<P(0, 0), P(2, 0), P(2, 1), P(1, 1), P(1, 2), P(0, 2)>>

Dart == <<P(0, 0), P(3, 0), P(1, 1), P(0, 3)>>

Pythagorean == <<P(0, 0), P(4, 0), P(4, 3)>>

\* Triangles with an edge shorter than 1/2 and with the steep edge
\* (-3/5, -9/5).
Special == {RightTriangle(1, 1, 4), RightTriangle(-3, -9, 5)}

Polygons ==
  Triangles \cup {Square, Rectangle, Diamond, LShape, Dart, Pythagorean}
            \cup Special

\* eps is a double.
EpsValues == {DPow2[2], DPow2[0], DPow2[-2]}

Radii == {OneHalf, One}

\* The inputs of the approximation of one edge length: the first edge of
\* each triangle.
Legs == (-MaxLeg..MaxLeg) \ {0}

EdgeTriangles ==
  {RightTriangle(dx, dy, d) : dx \in Legs, dy \in Legs, d \in 1..5}

EdgeEpsValues == {DPow2[2], DPow2[0], DPow2[-2], DPow2[-4]}

\* An eps whose inverse root, 2^32, is no int, and triangles whose first
\* edge has an integer length.
TinyEps == DPow2[-64]

TinyTriangles ==
  {RightTriangle(sx * 3, sy * 4, d) : sx \in {-1, 1}, sy \in {-1, 1},
                                      d \in {1, 5}}

\* ------------------------------------------------------------------------
\* State
\* ------------------------------------------------------------------------

VARIABLES
  pc,                   \* where the program is
  eps, r, pgn, cycle_id, call,          \* the caller's arguments
  eps_, inv_sqrt_eps,                   \* the data members _eps, _inv_sqrt_eps
  forward, first, curr, next,           \* the circulators (vertex numbers)
  delta_x, delta_y, sqr_d, err_bound, denom, app_d, app_err,
  lower_tan_half_phi, upper_tan_half_phi,
  op1, op2, mid_p, first_op, prev_op,
  curve_index, seg1, seg2, dir_right1, dir_right2, n_segments,
  xobjs, xobj_it,
  oi, container,        \* a position iterator and the array it writes to
  emitted,              \* the values assigned through *oi, in order
  visited,              \* history: the vertices whose edge was taken
  n_iter,               \* history: the turns of the refinement loop
  cycles                \* history: the output and the tour of each call

args    == <<eps, r, pgn, cycle_id, call>>
members == <<eps_, inv_sqrt_eps>>
circ    == <<forward, first, curr, next>>
edge    == <<delta_x, delta_y, sqr_d>>
approx  == <<err_bound, denom, app_d, app_err>>
tans    == <<lower_tan_half_phi, upper_tan_half_phi>>
segs    == <<op1, op2, mid_p, seg1, seg2, dir_right1, dir_right2, n_segments>>
ends    == <<first_op, prev_op>>
arcs    == <<xobjs, xobj_it>>
output  == <<curve_index, oi, container, emitted>>
history == <<visited, n_iter, cycles>>

vars == <<pc, args, members, circ, edge, approx, tans, segs, ends, arcs,
          output, history>>

NoCurve == Segment(NoPoint, NoPoint)

InitWith(E, R, Pg) ==
  /\ pc = "new"
  /\ eps \in E /\ r \in R /\ pgn \in Pg
  /\ cycle_id \in 0..MaxCycleId
  /\ call = 1
  /\ eps_ = DZero /\ inv_sqrt_eps = 0
  /\ forward = FALSE /\ first = 1 /\ curr = 1 /\ next = 1
  /\ delta_x = Zero /\ delta_y = Zero /\ sqr_d = Zero
  /\ err_bound = DZero /\ denom = 0 /\ app_d = Zero /\ app_err = Zero
  /\ lower_tan_half_phi = Zero /\ upper_tan_half_phi = Zero
  /\ op1 = NoPoint /\ op2 = NoPoint /\ mid_p = NoPoint
  /\ first_op = NoPoint /\ prev_op = NoPoint
  /\ curve_index = 0 /\ seg1 = NoCurve /\ seg2 = NoCurve
  /\ dir_right1 = FALSE /\ dir_right2 = FALSE /\ n_segments = 0
  /\ xobjs = <<>> /\ xobj_it = 1
  /\ oi = 0 /\ container = <<>> /\ emitted = <<>>
  /\ visited = <<>> /\ n_iter = 0 /\ cycles = <<>>

Init == InitWith(EpsValues, Radii, Polygons)

\* ------------------------------------------------------------------------
\* The constructor and the call
\* ------------------------------------------------------------------------

\* Approx_offset_base_2 (eps), lines 81-89.
Construct ==
  /\ pc = "new"
  /\ IF eps[1] = 1
     THEN /\ eps_' = eps
          /\ inv_sqrt_eps' \in InvSqrtEps(eps)
          /\ pc' = "constructed"
     ELSE /\ pc' = "rejected"
          /\ UNCHANGED members
  /\ UNCHANGED <<args, circ, edge, approx, tans, segs, ends, arcs, output,
                 history>>

\* The entry of _offset_polygon, lines 104-164.  The locals of lines
\* 119-149 are new objects at every call: the numbers are 0, the points
\* and the curves are the default ones.  n_segments (line 149) has no
\* initialiser and is not read before an edge sets it: it is left as it is.
Enter ==
  /\ pc = "constructed"
  /\ forward' = (orientation(pgn) = 1)
  /\ first' = 1 /\ curr' = 1 /\ next' = 1
  /\ curve_index' = 0
  /\ dir_right1' = FALSE /\ dir_right2' = FALSE
  /\ xobjs' = <<>> /\ xobj_it' = 1
  /\ oi' = 0 /\ container' = <<>> /\ emitted' = <<>>
  /\ visited' = <<>>
  /\ delta_x' = Zero /\ delta_y' = Zero /\ sqr_d' = Zero
  /\ err_bound' = DZero /\ denom' = 0 /\ app_d' = Zero /\ app_err' = Zero
  /\ lower_tan_half_phi' = Zero /\ upper_tan_half_phi' = Zero
  /\ op1' = NoPoint /\ op2' = NoPoint /\ mid_p' = NoPoint
  /\ first_op' = NoPoint /\ prev_op' = NoPoint
  /\ seg1' = NoCurve /\ seg2' = NoCurve
  /\ pc' = "edge"
  /\ UNCHANGED <<args, members, n_segments, n_iter, cycles>>

\* ------------------------------------------------------------------------
\* One edge: its offset segment(s), lines 166-359
\* ------------------------------------------------------------------------

\* The locals an edge computation assigns, with their current values.
EdgeLocals ==
  [pc |-> pc, op1 |-> op1, op2 |-> op2, seg1 |-> seg1,
   dir_right1 |-> dir_right1, n_segments |-> n_segments,
   err_bound |-> err_bound, denom |-> denom, app_d |-> app_d,
   app_err |-> app_err]

\* Lines 189-211: a vertical edge is shifted by r to the right if it goes
\* up, and to the left if it goes down.
VerticalEdge(x1, y1, x2, y2, sign_delta_y) ==
  LET p1 == IF sign_delta_y = 1 THEN Point_2(Add(x1, r), y1)
                                ELSE Point_2(Sub(x1, r), y1)
      p2 == IF sign_delta_y = 1 THEN Point_2(Add(x2, r), y2)
                                ELSE Point_2(Sub(x2, r), y2)
  IN  [EdgeLocals EXCEPT !.op1 = p1, !.op2 = p2, !.seg1 = Segment(p1, p2),
                         !.dir_right1 = (sign_delta_y = 1),
                         !.n_segments = 1, !.pc = "connect"]

\* Lines 212-232: a horizontal edge is shifted by r down if it goes right,
\* and up if it goes left.
HorizontalEdge(x1, y1, x2, y2, sign_delta_x) ==
  LET p1 == IF sign_delta_x = 1 THEN Point_2(x1, Sub(y1, r))
                                ELSE Point_2(x1, Add(y1, r))
      p2 == IF sign_delta_x = 1 THEN Point_2(x2, Sub(y2, r))
                                ELSE Point_2(x2, Add(y2, r))
  IN  [EdgeLocals EXCEPT !.op1 = p1, !.op2 = p2, !.seg1 = Segment(p1, p2),
                         !.dir_right1 = (sign_delta_x = 1),
                         !.n_segments = 1, !.pc = "connect"]

\* Lines 235-265: the error bound and the possible seeds of the
\* approximation of d.  NT (n) / NT (0) is a division by zero.
GeneralEdge(dx, dy, sq) ==
  LET seed[eb \in Dbl, den \in Int, app \in FT] ==
        [EdgeLocals EXCEPT !.err_bound = eb, !.denom = den,
                           !.app_d = app,
                           !.app_err = Sub(sq, square(app)),
                           !.pc = "newton"]
      bound[eb \in Dbl, dd \in Dbl, den \in Int] ==
        IF den = 0
        THEN {[EdgeLocals EXCEPT !.err_bound = eb, !.denom = den,
                                 !.pc = "div_by_zero"]}
        ELSE {seed[eb, den, Rat(n, den)] : n \in SeedNum(dd, den)}
      root[dd \in Dbl] ==
        bound[ErrBound(dd, eps_, dx, dy), dd, Halve(inv_sqrt_eps, dd)]
  IN  root[DSqrt(sq)]

\* Lines 166-265: step next, take the edge curr -> next, and offset it
\* exactly (vertical, horizontal) or seed the approximation of its length.
EdgeBegin ==
  /\ pc = "edge"
  /\ LET nx  == StepNext(forward, next, Len(pgn))
         x1  == pgn[curr][1]
         y1  == pgn[curr][2]
         x2  == pgn[nx][1]
         y2  == pgn[nx][2]
         dx  == Sub(x2, x1)
         dy  == Sub(y2, y1)
         sq  == Add(square(dx), square(dy))
     IN  \E res \in IF sign(dx) = 0
                    THEN IF sign(dy) = 0
                         THEN {[EdgeLocals EXCEPT !.pc = "assert_fail"]}
                         ELSE {VerticalEdge(x1, y1, x2, y2, sign(dy))}
                    ELSE IF sign(dy) = 0
                         THEN {HorizontalEdge(x1, y1, x2, y2, sign(dx))}
                         ELSE GeneralEdge(dx, dy, sq) :
         /\ next' = nx
         /\ delta_x' = dx /\ delta_y' = dy /\ sqr_d' = sq
         /\ pc' = res.pc
         /\ op1' = res.op1 /\ op2' = res.op2 /\ seg1' = res.seg1
         /\ dir_right1' = res.dir_right1 /\ n_segments' = res.n_segments
         /\ err_bound' = res.err_bound /\ denom' = res.denom
         /\ app_d' = res.app_d /\ app_err' = res.app_err
  /\ visited' = Append(visited, curr)
  /\ n_iter' = 0
  /\ UNCHANGED <<args, members, forward, first, curr, tans, mid_p, seg2,
                 dir_right2, ends, arcs, output, cycles>>

\* Lines 267-274: one turn of the refinement loop.  sqr_d / app_d with
\* app_d = 0 is a division by zero.
NewtonStep ==
  /\ pc = "newton"
  /\ NewtonCond(app_d, app_err, err_bound, abs(delta_x), abs(delta_y))
  /\ IF app_d = Zero
     THEN /\ pc' = "div_by_zero"
          /\ UNCHANGED <<app_d, app_err, n_iter>>
     ELSE /\ app_d' = NewtonIter(app_d, sqr_d)
          /\ app_err' = Sub(sqr_d, square(app_d'))
          /\ n_iter' = n_iter + 1
          /\ pc' = "newton"
  /\ UNCHANGED <<args, members, circ, edge, err_bound, denom, tans, segs,
                 ends, arcs, output, visited, cycles>>

\* Lines 283-292: the length app_d is exact, both end points are shifted
\* by (r * delta_y / app_d, -r * delta_x / app_d).
ExactEdge(x1, y1, x2, y2) ==
  LET trans_x == Div(Mul(r, delta_y), app_d)
      trans_y == Div(Mul(r, Neg(delta_x)), app_d)
      p1 == Point_2(Add(x1, trans_x), Add(y1, trans_y))
      p2 == Point_2(Add(x2, trans_x), Add(y2, trans_y))
  IN  [pc |-> "connect", op1 |-> p1, op2 |-> p2, seg1 |-> Segment(p1, p2),
       dir_right1 |-> (sign(delta_x) = 1), n_segments |-> 1,
       app_d |-> app_d, lower |-> lower_tan_half_phi,
       upper |-> upper_tan_half_phi]

\* Lines 296-315: the biased approximation and the two half-angle tangents.
\* (-delta_x) / (app_d + delta_y) with app_d = -delta_y is a division by
\* zero.
BiasedEdge(sign_app_err) ==
  LET a  == IF BiasSwap(sign(delta_x), sign_app_err)
            THEN Div(sqr_d, app_d) ELSE app_d
      lo == Div(Sub(a, delta_y), Neg(delta_x))
      s  == Add(a, delta_y)
  IN  [pc |-> IF s = Zero THEN "div_by_zero" ELSE "offsets",
       op1 |-> op1, op2 |-> op2, seg1 |-> seg1, dir_right1 |-> dir_right1,
       n_segments |-> n_segments, app_d |-> a, lower |-> lo,
       upper |-> IF s = Zero THEN upper_tan_half_phi
                             ELSE Div(Neg(delta_x), s)]

\* Lines 276-315: the loop is left; one exact segment, or the tangents of
\* the two approximating segments.
NewtonAccept ==
  /\ pc = "newton"
  /\ ~NewtonCond(app_d, app_err, err_bound, abs(delta_x), abs(delta_y))
  /\ LET sign_app_err == sign(app_err)
     IN  \E res \in {IF IsExact(sign_app_err)
                     THEN ExactEdge(pgn[curr][1], pgn[curr][2],
                                    pgn[next][1], pgn[next][2])
                     ELSE BiasedEdge(sign_app_err)} :
         /\ pc' = res.pc
         /\ op1' = res.op1 /\ op2' = res.op2 /\ seg1' = res.seg1
         /\ dir_right1' = res.dir_right1 /\ n_segments' = res.n_segments
         /\ app_d' = res.app_d
         /\ lower_tan_half_phi' = res.lower
         /\ upper_tan_half_phi' = res.upper
  /\ UNCHANGED <<args, members, circ, edge, err_bound, denom, app_err,
                 mid_p, seg2, dir_right2, ends, arcs, output, history>>

\* Lines 317-357: the two offset points, the tangent lines at them, their
\* intersection and the two segments.
OffsetPoints ==
  /\ pc = "offsets"
  /\ LET p1 == OffsetPoint(pgn[curr][1], pgn[curr][2], r, lower_tan_half_phi)
         p2 == OffsetPoint(pgn[next][1], pgn[next][2], r, upper_tan_half_phi)
         l1 == TangentLine(pgn[curr], p1)
         l2 == TangentLine(pgn[next], p2)
     IN  /\ op1' = p1 /\ op2' = p2
         /\ IF LineDet(l1, l2) = Zero
            THEN /\ pc' = "assert_fail"
                 /\ UNCHANGED <<mid_p, seg1, seg2, dir_right1, dir_right2,
                                n_segments>>
            ELSE LET m == Intersect(l1, l2)
                 IN  /\ mid_p' = m
                     /\ seg1' = Segment(p1, m)
                     /\ dir_right1' = (f_comp_xy(p1, m) = -1)
                     /\ seg2' = Segment(m, p2)
                     /\ dir_right2' = (f_comp_xy(m, p2) = -1)
                     /\ n_segments' = 2
                     /\ pc' = "connect"
  /\ UNCHANGED <<args, members, circ, edge, approx, tans, ends, arcs, output,
                 history>>

\* ------------------------------------------------------------------------
\* The convolution cycle: arcs and segments, lines 361-449
\* ------------------------------------------------------------------------

\* *oi = v on a position iterator: the element at oi is assigned.
Assign(v) ==
  IF oi < Len(container) THEN [container EXCEPT ![oi + 1] = v]
  ELSE Append(container, v)

\* Lines 361-377: the first edge stores its op1; every other edge is
\* connected to the previous one by an arc around curr.
Connect ==
  /\ pc = "connect"
  /\ IF curr = first
     THEN /\ first_op' = op1
          /\ pc' = "seg1"
          /\ UNCHANGED arcs
     ELSE /\ xobjs' = MakeXMonotone(pgn[curr], r, prev_op, op1)
          /\ xobj_it' = 1
          /\ pc' = IF xobjs' = <<>> THEN "seg1" ELSE "arc"
          /\ UNCHANGED first_op
  /\ UNCHANGED <<args, members, circ, edge, approx, tans, segs, prev_op,
                 output, history>>

\* Lines 379-390: one subarc of the connecting arc is written.
EmitArc ==
  /\ pc = "arc"
  /\ LET xarc == xobjs[xobj_it]
         v == Labeled_curve_2(xarc, is_directed_right(xarc), cycle_id,
                              curve_index, FALSE)
     IN  /\ container' = Assign(v)
         /\ emitted' = Append(emitted, v)
  /\ oi' = oi + 1
  /\ curve_index' = curve_index + 1
  /\ xobj_it' = xobj_it + 1
  /\ pc' = IF xobj_it' > Len(xobjs) THEN "seg1" ELSE "arc"
  /\ UNCHANGED <<args, members, circ, edge, approx, tans, segs, ends, xobjs,
                 history>>

\* Lines 394-401: the first offset segment is written.
EmitSeg1 ==
  /\ pc = "seg1"
  /\ LET v == Labeled_curve_2(seg1, dir_right1, cycle_id, curve_index, FALSE)
     IN  /\ container' = Assign(v)
         /\ emitted' = Append(emitted, v)
  /\ oi' = oi + 1
  /\ curve_index' = curve_index + 1
  /\ pc' = IF n_segments = 2 THEN "seg2" ELSE "advance"
  /\ UNCHANGED <<args, members, circ, edge, approx, tans, segs, ends, arcs,
                 history>>

\* Lines 403-411: the second offset segment is written.
EmitSeg2 ==
  /\ pc = "seg2"
  /\ LET v == Labeled_curve_2(seg2, dir_right2, cycle_id, curve_index, FALSE)
     IN  /\ container' = Assign(v)
         /\ emitted' = Append(emitted, v)
  /\ oi' = oi + 1
  /\ curve_index' = curve_index + 1
  /\ pc' = "advance"
  /\ UNCHANGED <<args, members, circ, edge, approx, tans, segs, ends, arcs,
                 history>>

\* A variant of the assignments below that does not record op2.
AdvanceMut == curr' = next /\ UNCHANGED prev_op

\* Lines 414-415: prev_op = op2; curr = next.
AdvanceStep == prev_op' = op2 /\ curr' = next

\* Lines 413-417: proceed to the next vertex, until the first is met.
Advance ==
  /\ pc = "advance"
  /\ AdvanceStep
  /\ pc' = IF curr' # first THEN "edge" ELSE "close"
  /\ UNCHANGED <<args, members, forward, first, next, edge, approx, tans,
                 segs, first_op, arcs, output, history>>

\* A variant of the target below: the last edge's op1.
ClosingTargetMut == op1

\* The target of the closing arc (line 423).
ClosingTarget == first_op

\* Lines 419-432: the arc around the first vertex that closes the cycle.
CloseCycle ==
  /\ pc = "close"
  /\ xobjs' = MakeXMonotone(pgn[first], r, op2, ClosingTarget)
  /\ xobj_it' = 1
  /\ pc' = IF xobjs' = <<>> THEN "return" ELSE "closing"
  /\ UNCHANGED <<args, members, circ, edge, approx, tans, segs, ends, output,
                 history>>

\* A variant of the test below that is off by one piece.
IsLastMut(it, objs) == it >= Len(objs)

\* Line 439, after ++xobj_it: whether the subarc is the last one.
IsLast(it, objs) == it > Len(objs)

\* Lines 433-447: one subarc of the closing arc is written; oi is not
\* advanced.
EmitClosing ==
  /\ pc = "closing"
  /\ xobj_it' = xobj_it + 1
  /\ LET xarc == xobjs[xobj_it]
         is_last == IsLast(xobj_it', xobjs)
         v == Labeled_curve_2(xarc, is_directed_right(xarc), cycle_id,
                              curve_index, is_last)
     IN  /\ container' = Assign(v)
         /\ emitted' = Append(emitted, v)
  /\ curve_index' = curve_index + 1
  /\ pc' = IF xobj_it' > Len(xobjs) THEN "return" ELSE "closing"
  /\ UNCHANGED <<args, members, circ, edge, approx, tans, segs, ends, xobjs,
                 oi, history>>

\* Line 449: return (oi).
Return ==
  /\ pc = "return"
  /\ cycles' = Append(cycles, [out  |-> emitted,
                               tour |-> [k \in 1..Len(visited) |->
                                           pgn[visited[k]]]])
  /\ pc' = "done"
  /\ UNCHANGED <<args, members, circ, edge, approx, tans, segs, ends, arcs,
                 output, visited, n_iter>>

\* The caller offsets the same polygon with its vertices in reverse order,
\* as the next cycle.
CallAgain ==
  /\ pc = "done"
  /\ call < NumCalls
  /\ call' = call + 1
  /\ pgn' = Reverse(pgn)
  /\ cycle_id' = cycle_id + 1
  /\ pc' = "constructed"
  /\ UNCHANGED <<eps, r, members, circ, edge, approx, tans, segs, ends, arcs,
                 output, history>>

Next ==
  \/ Construct
  \/ Enter
  \/ EdgeBegin
  \/ NewtonStep
  \/ NewtonAccept
  \/ OffsetPoints
  \/ Connect
  \/ EmitArc
  \/ EmitSeg1
  \/ EmitSeg2
  \/ Advance
  \/ CloseCycle
  \/ EmitClosing
  \/ Return
  \/ CallAgain

Spec == Init /\ [][Next]_vars

\* The approximation of the length of one edge, on its own.
InitEdge ==
  \/ InitWith(EdgeEpsValues, {One}, EdgeTriangles)
  \/ InitWith({TinyEps}, {One}, TinyTriangles)

NextEdge ==
  \/ Construct
  \/ Enter
  \/ EdgeBegin
  \/ NewtonStep
  \/ NewtonAccept

SpecEdge == InitEdge /\ [][NextEdge]_vars

\* The program runs on: a step that can be taken is taken.
FairEdge == SpecEdge /\ WF_vars(NextEdge)

\* Arguments that violate the preconditions, beside valid ones.
InitPre ==
  InitWith({DNeg[DPow2[0]], DZero, DPow2[0]}, {Neg(OneHalf), Zero, One},
           {Square, Rectangle, Diamond, Dart})

SpecPre == InitPre /\ [][Next]_vars

\* ------------------------------------------------------------------------
\* Properties
\* ------------------------------------------------------------------------

N == Len(emitted)

Kind(i) == emitted[i].curve.kind

\* The call that wrote the curves of emitted is over: it is returning, has
\* returned, or the next call is constructed and not entered yet.
Over == pc \in {"return", "done"} \/ (pc = "constructed" /\ call > 1)

\* C1: the k-th curve written by a call carries the index k - 1; a curve
\* that carries is-last is the last one written and the call is over, and
\* when the call is over the last curve written carries is-last.
C1_IndexAndLast ==
  /\ \A k \in 1..N : emitted[k].index = k - 1
  /\ \A k \in 1..N : emitted[k].last => k = N /\ Over
  /\ Over => N > 0 /\ emitted[N].last

\* A second call is over, and its closing arc was written in two or more
\* pieces after a two-segment edge.
C1_Witness ==
  /\ pc = "done" /\ call = 2
  /\ N >= 3
  /\ Kind(N) = "arc" /\ Kind(N - 1) = "arc" /\ Kind(N - 2) = "seg"
  /\ \E k \in 2..N : Kind(k) = "seg" /\ Kind(k - 1) = "seg"

\* C2: when the call is over the last curve written ends where the first
\* one starts, at first_op, the source of the first segment.
C2_Closure ==
  pc = "done" =>
    /\ Kind(1) = "seg"
    /\ emitted[1].curve.src = first_op
    /\ emitted[N].curve.tgt = emitted[1].curve.src

\* A cycle is closed whose first edge gave two segments and whose last
\* edge gave one.
C2_Witness ==
  /\ pc = "done"
  /\ Kind(1) = "seg" /\ Kind(2) = "seg"
  /\ n_segments = 1
  /\ first_op # op1

V == Len(pgn)

\* The curve at position i opens a group of arc pieces, or of segments.
ArcStart(i) == Kind(i) = "arc" /\ (i = 1 \/ Kind(i - 1) = "seg")

SegStart(i) == Kind(i) = "seg" /\ (i = 1 \/ Kind(i - 1) = "arc")

\* The number of the edge, in the order of the traversal, whose segments
\* are the last ones written up to position i.
Rank(i) == Cardinality({j \in 1..i : SegStart(j)})

\* C3: a finished traversal has taken every vertex once as the source of
\* an edge, in circular order; the curves start with the first edge's
\* segments, form one chain, hold V groups of one or two segments and V
\* groups of arc pieces, the group after the k-th edge centred at the source
\* of the next edge and the last one at the first vertex.
C3_TraversalOrder ==
  pc = "done" =>
    /\ Len(visited) = V
    /\ {visited[k] : k \in 1..V} = 1..V
    /\ visited[1] = first
    /\ \A k \in 1..(V - 1) :
         visited[k + 1] = IF forward THEN CircNext(visited[k], V)
                                     ELSE CircPrev(visited[k], V)
    /\ Kind(1) = "seg" /\ Kind(N) = "arc"
    /\ Cardinality({i \in 1..N : SegStart(i)}) = V
    /\ Cardinality({i \in 1..N : ArcStart(i)}) = V
    /\ Cardinality({i \in 1..N : Kind(i) = "seg"}) \in V..(2 * V)
    /\ \A i \in 1..(N - 2) :
         ~(Kind(i) = "seg" /\ Kind(i + 1) = "seg" /\ Kind(i + 2) = "seg")
    /\ \A i \in 1..(N - 1) : emitted[i].curve.tgt = emitted[i + 1].curve.src
    /\ \A i \in 1..N :
         Kind(i) = "arc" =>
           emitted[i].curve.centre = pgn[visited[(Rank(i) % V) + 1]]

\* A polygon of four or more vertices is finished; one of its edges gave
\* two segments, another one, and a connecting arc before the last edge
\* was written in two or more pieces.
C3_Witness ==
  /\ pc = "done"
  /\ V >= 4
  /\ \E i \in 1..(N - 1) : Kind(i) = "seg" /\ Kind(i + 1) = "seg"
  /\ \E i \in 2..(N - 1) :
       Kind(i - 1) = "arc" /\ Kind(i) = "seg" /\ Kind(i + 1) = "arc"
  /\ \E i \in 1..(N - 2) :
       Kind(i) = "arc" /\ Kind(i + 1) = "arc" /\ Rank(i) < V

\* C5: arguments that violate a precondition (eps <= 0, r <= 0, fewer than
\* three vertices) are rejected before the traversal: the call never goes
\* past the rejection and no curve is written.
C5_Rejected ==
  /\ eps[1] # 1 => pc \in {"new", "rejected"}
  /\ (sign(r) # 1 \/ Len(pgn) < 3) =>
       pc \in {"new", "constructed", "rejected"}
  /\ (eps[1] # 1 \/ sign(r) # 1 \/ Len(pgn) < 3) => emitted = <<>>

\* A curve without its sequence index, cycle id and is-last flag.
Strip(c) == [curve |-> c.curve, right |-> c.right]

StripAll(out) == [i \in 1..Len(out) |-> Strip(out[i])]

\* b is a with another starting position.
IsRotation(a, b) ==
  /\ Len(a) = Len(b)
  /\ \E sh \in 0..(Len(a) - 1) :
       \A i \in 1..Len(a) : b[i] = a[((i - 1 + sh) % Len(a)) + 1]

\* C6: the calls on a polygon and on the same polygon with its vertices
\* in reverse order each go round the vertices counterclockwise, go round
\* the same circular sequence of vertices, and write the same curves with
\* the same direction flags, up to the position they start at.
C6_OrientationInvariance ==
  /\ \A c \in 1..Len(cycles) : orientation(cycles[c].tour) = 1
  /\ \A c \in 1..(Len(cycles) - 1) :
       /\ IsRotation(cycles[c].tour, cycles[c + 1].tour)
       /\ IsRotation(StripAll(cycles[c].out), StripAll(cycles[c + 1].out))

\* Both calls are over, one circulated backward, and they did not start
\* at the same vertex.
C6_Witness ==
  /\ pc = "done"
  /\ Len(cycles) >= 2
  /\ ~forward
  /\ cycles[1].tour # cycles[2].tour
  /\ StripAll(cycles[1].out) # StripAll(cycles[2].out)
  /\ cycles[1].out[1].right # cycles[2].out[1].right

\* The largest k >= lo with k * k <= n.
IsqrtFrom(lo, n) ==
  LET from[k \in Nat, m \in Nat] ==
        IF (k + 1) * (k + 1) <= m THEN from[k + 1, m] ELSE k
  IN  from[lo, n]

Isqrt(n) == IsqrtFrom(0, n)

IsSquareInt(n) == [m \in Nat |-> Isqrt(m) * Isqrt(m) = m][n]

\* Whether the non-negative fraction a is the square of a fraction.
IsSquareRat(a) == [x \in FT |-> IsSquareInt(x[1]) /\ IsSquareInt(x[2])][a]

\* The edge was taken and its length settled, or a division by zero ended
\* the call on it.
EdgeEnded == pc \in {"connect", "offsets", "div_by_zero"}

\* C4: a general edge of rational length gets exactly one segment with no
\* approximation error, whatever eps is: never the split in two segments,
\* and never a division by zero in place of the segment.
C4_RationalAlwaysExact ==
  (EdgeEnded /\ IsSquareRat(sqr_d)) =>
    (pc = "connect" /\ n_segments = 1 /\ app_err = Zero)

\* C8: the refinement loop of an edge with a positive seed and a positive
\* error bound is left; when it is left the error of app_d is within the
\* bound and app_d is greater than |delta_x| and |delta_y|, and the length
\* used afterwards is that app_d or sqr_d / app_d.
C8_NewtonTerminates ==
  /\ [](pc = "newton" /\ sign(app_d) = 1 /\ err_bound[1] = 1
          => <>(pc # "newton"))
  /\ [][(pc = "newton" /\ pc' # "newton" /\ sign(app_d) = 1
           /\ err_bound[1] = 1)
          => /\ CompareNT[abs(Sub(sqr_d, square(app_d))), err_bound] # 1
             /\ Less(abs(delta_x), app_d)
             /\ Less(abs(delta_y), app_d)
             /\ app_d' \in {app_d, Div(sqr_d, app_d)}]_vars

\* The loop was left after two refinements, for two segments.
C8_Witness ==
  /\ pc = "offsets"
  /\ n_iter >= 2
  /\ err_bound[1] = 1

\* C9: once the object is constructed _inv_sqrt_eps is at least 1; an edge
\* whose length is refined has denom >= 1 and a seed greater than 0, and
\* no division by zero comes from denom = 0 or app_d = 0.
C9_SeedWellDefined ==
  /\ pc \notin {"new", "rejected"} => inv_sqrt_eps >= 1
  /\ pc = "newton" => denom >= 1 /\ sign(app_d) = 1
  /\ pc = "div_by_zero" => denom >= 1 /\ sign(app_d) = 1

\* The branch of two segments was taken for the edge.
TwoSegments ==
  \/ pc = "offsets"
  \/ pc = "div_by_zero" /\ denom # 0 /\ app_d # Zero

\* C10: for an edge of two segments the biased app_d is strictly below the
\* length if delta_x < 0 and strictly above it if delta_x > 0, it is
\* greater than |delta_y|, so that app_d + delta_y is not zero and both
\* tangents are computed, and lower_tan_half_phi < upper_tan_half_phi.
C10_BiasSound ==
  TwoSegments =>
    /\ sign(delta_x) = -1 => Less(square(app_d), sqr_d)
    /\ sign(delta_x) = 1 => Less(sqr_d, square(app_d))
    /\ Less(abs(delta_y), app_d)
    /\ Add(app_d, delta_y) # Zero
    /\ pc = "offsets"
    /\ Less(lower_tan_half_phi, upper_tan_half_phi)

\* C7: every curve is written to a position of its own and the iterator
\* ends past all of them: the array holds the curves written, in order,
\* and oi is their number.
C7_OwnPosition == container = emitted /\ oi = N

====
